---- MODULE Spec2Model ----
(***************************************************************************)
(* zipzap (src/src/main.rs): a frecency database of visited directories.   *)
(*                                                                         *)
(* The table `zipzap` (path TEXT PRIMARY KEY, rank REAL, time INTEGER) is  *)
(* a set of rows.  Strings are sequences of one-character strings.  A REAL *)
(* is an exact fixed-point number, an integer count of 1/Scale units; the  *)
(* rounding of IEEE doubles is not modelled, and a decay that would need   *)
(* more digits than Scale holds is not taken.                              *)
(***************************************************************************)
EXTENDS Integers, Sequences, FiniteSets, TLC

VARIABLES zipzap, zfile, pc, path, now, total, last, prev, nops, hist

vars == <<zipzap, zfile, pc, path, now, total, last, prev, nops, hist>>

\* ------------------------------------------------------------------ bounds
\* commands run in one behaviour
MaxOps == 3
\* lines of the ~/.z file
MaxLines == 2
\* aging passes before the uncounted visits of SpecVisits stop
MaxPasses == 1

\* ------------------------------------------------------- numbers and text
\* units of one REAL 1.0
Scale == 10000
\* "total >= 9000.0"
Threshold == 9000
\* the 12500 of 0.0001 * age + 1 + 0.25 = (age + 12500) / 10000
AgeOffset == 12500

NoRow == [path |-> <<>>, rank |-> 0, time |-> -1, none |-> TRUE]

Lower(c) ==
  CASE c = "X" -> "x"
    [] c = "Y" -> "y"
    [] OTHER -> c

\* the path stored as it was given
ToLowerNot(s) == [i \in 1..Len(s) |-> s[i]]

\* str::to_lowercase
ToLower(s) == [i \in 1..Len(s) |-> Lower(s[i])]

Digits == <<"0", "1", "2", "3", "4", "5", "6", "7", "8", "9">>

IsDigit(c) == \E d \in 1..10 : Digits[d] = c

DigitVal(c) == (CHOOSE d \in 1..10 : Digits[d] = c) - 1

AllDigits(s) == \A i \in 1..Len(s) : IsDigit(s[i])

RECURSIVE NatOf(_)
NatOf(s) ==
  IF s = <<>> THEN 0
  ELSE 10 * NatOf(SubSeq(s, 1, Len(s) - 1)) + DigitVal(s[Len(s)])

RECURSIVE Pow10(_)
Pow10(k) == IF k = 0 THEN 1 ELSE 10 * Pow10(k - 1)

\* the number of fraction digits a REAL of the model holds
FracDigits == CHOOSE k \in 0..9 : Pow10(k) = Scale

Bad == [ok |-> FALSE, val |-> 0]

Good(v) == [ok |-> TRUE, val |-> v]

\* str::parse::<i64>: an optional sign and at least one digit
ParseI64(s) ==
  LET signed == s # <<>> /\ s[1] \in {"-", "+"}
      body == IF signed THEN Tail(s) ELSE s
  IN  IF body = <<>> \/ ~AllDigits(body) THEN Bad
      ELSE IF signed /\ s[1] = "-" THEN Good(0 - NatOf(body))
      ELSE Good(NatOf(body))

\* str::parse::<f64> on decimal literals: sign, digits, optional fraction
ParseF64(s) ==
  LET signed == s # <<>> /\ s[1] \in {"-", "+"}
      body == IF signed THEN Tail(s) ELSE s
      dots == {i \in 1..Len(body) : body[i] = "."}
      dot == IF dots = {} THEN Len(body) + 1 ELSE CHOOSE i \in dots : TRUE
      whole == SubSeq(body, 1, dot - 1)
      frac == SubSeq(body, dot + 1, Len(body))
      mag == NatOf(whole) * Scale + NatOf(frac) * Pow10(FracDigits - Len(frac))
  IN  IF \/ Cardinality(dots) > 1
         \/ ~AllDigits(whole) \/ ~AllDigits(frac)
         \/ Len(whole) + Len(frac) = 0
         \/ Len(frac) > FracDigits
      THEN Bad
      ELSE IF signed /\ s[1] = "-" THEN Good(0 - mag)
      ELSE Good(mag)

\* str::split('|'): the fields of a line, at least one
RECURSIVE Split(_)
Split(s) ==
  LET bars == {i \in 1..Len(s) : s[i] = "|"}
  IN  IF bars = {} THEN <<s>>
      ELSE LET b == CHOOSE i \in bars : \A j \in bars : i <= j
           IN  <<SubSeq(s, 1, b - 1)>> \o Split(SubSeq(s, b + 1, Len(s)))

\* ---------------------------------------------------------------- the table
Row(p, r, t) == [path |-> p, rank |-> r, time |-> t, none |-> FALSE]

Find1(table, p) ==
  IF \E e \in table : e.path = p
  THEN CHOOSE e \in table : e.path = p
  ELSE NoRow

RECURSIVE SumRank(_)
\* SELECT SUM(rank) FROM zipzap
SumRank(table) ==
  IF table = {} THEN 0
  ELSE LET e == CHOOSE x \in table : TRUE
       IN  e.rank + SumRank(table \ {e})

\* an upsert whose DO UPDATE leaves the time column alone
UpsertKeepsTime(table, p, t) ==
  LET old == Find1(table, p)
  IN  IF old.none THEN table \cup {Row(p, Scale, t)}
      ELSE (table \ {old}) \cup {Row(p, old.rank + Scale, old.time)}

\* INSERT ... VALUES (:path, 1, :now) ON CONFLICT(path)
\* DO UPDATE SET rank = rank + 1, time = :now
Upsert(table, p, t) ==
  LET old == Find1(table, p)
  IN  IF old.none THEN table \cup {Row(p, Scale, t)}
      ELSE (table \ {old}) \cup {Row(p, old.rank + Scale, t)}

\* the factor written 0.9
DecayTenth(r) == (r \div 100) * 90

\* rank * 0.99
Decay(r) == (r \div 100) * 99

\* the product rank * 0.99 fits the fraction digits of the model
Decayable(table) == \A e \in table : e.rank % 100 = 0

\* UPDATE zipzap SET rank = rank * 0.99
Age(table) == {Row(e.path, Decay(e.rank), e.time) : e \in table}

\* ------------------------------------------------------------------ import
\* an import statement that adds the ranks, as the upsert of add does
ImportRowAdds(table, p, r, t) ==
  LET old == Find1(table, p)
  IN  IF old.none THEN table \cup {Row(p, r, t)}
      ELSE (table \ {old}) \cup {Row(p, old.rank + r, t)}

\* an import statement without its WHERE clause
ImportRowAlways(table, p, r, t) ==
  LET old == Find1(table, p)
  IN  IF old.none THEN table \cup {Row(p, r, t)}
      ELSE (table \ {old}) \cup {Row(p, r, t)}

\* INSERT ... VALUES (?, ?, ?) ON CONFLICT (path) DO UPDATE SET
\* rank = excluded.rank, time = excluded.time WHERE excluded.time > zipzap.time
ImportRow(table, p, r, t) ==
  LET old == Find1(table, p)
  IN  IF old.none THEN table \cup {Row(p, r, t)}
      ELSE IF t > old.time THEN (table \ {old}) \cup {Row(p, r, t)}
      ELSE table

\* one line of the loop: split, lowercase the path, parse rank and time
ParseLine(line) ==
  LET f == Split(line)
      r == IF Len(f) >= 2 THEN ParseF64(f[2]) ELSE Bad
      t == IF Len(f) >= 3 THEN ParseI64(f[3]) ELSE Bad
  IN  [ok |-> r.ok /\ t.ok, path |-> ToLower(f[1]), rank |-> r.val, time |-> t.val]

\* the loop over z_text.lines() inside the transaction, from line i on:
\* the first line that does not parse ends it with an error
RECURSIVE ImportLines(_, _, _)
ImportLines(table, lines, i) ==
  IF i > Len(lines) THEN [ok |-> TRUE, table |-> table, n |-> i - 1]
  ELSE LET rec == ParseLine(lines[i])
       IN  IF ~rec.ok THEN [ok |-> FALSE, table |-> table, n |-> i - 1]
           ELSE ImportLines(ImportRow(table, rec.path, rec.rank, rec.time), lines, i + 1)

\* a commit of whatever the loop wrote before it stopped
CommittedPartial(table, run) == run.table

\* tx.commit() after the loop; a `?` that returns early drops tx, which
\* rolls the transaction back
Committed(table, run) == IF run.ok THEN run.table ELSE table

\* -------------------------------------------------------------------- find
RECURSIVE Like(_, _)
\* SQLite's LIKE without ESCAPE: % is any run, _ is any one character,
\* other characters compare without regard to ASCII case
Like(pat, s) ==
  IF pat = <<>> THEN s = <<>>
  ELSE IF pat[1] = "%"
       THEN Like(Tail(pat), s) \/ (s # <<>> /\ Like(pat, Tail(s)))
  ELSE /\ s # <<>>
       /\ (pat[1] = "_" \/ Lower(pat[1]) = Lower(s[1]))
       /\ Like(Tail(pat), Tail(s))

RECURSIVE BuildPattern(_)
\* pat = "%" + lower(p1) + "%" + ... + lower(pN) + "%"
BuildPattern(pattern) ==
  IF pattern = <<>> THEN <<"%">>
  ELSE <<"%">> \o ToLower(Head(pattern)) \o BuildPattern(Tail(pattern))

\* 10000 * ((0.0001 * (now - time) + 1) + 0.25)
Den(e, t) == (t - e.time) + AgeOffset

\* x * m for a fixed-point x and 0 <= m, as <<whole units, rest>>
Wide(x, m) ==
  <<(x \div Scale) * m + ((x % Scale) * m) \div Scale, ((x % Scale) * m) % Scale>>

WideLeq(a, b) == a[1] < b[1] \/ (a[1] = b[1] /\ a[2] <= b[2])

Abs(x) == IF x < 0 THEN 0 - x ELSE x

\* the ORDER BY key written as rank alone, without the factor of the age
KeyLeqRank(a, b, t) == a.rank <= b.rank

\* the ORDER BY key rank * (3.75 / den) of a sorts at or below that of b;
\* a zero divisor gives NULL, which sorts below every number.
\* The common factor 3.75 * 10000 does not change the order.
KeyLeq(a, b, t) ==
  LET sa == IF Den(a, t) < 0 THEN 0 - a.rank ELSE a.rank
      sb == IF Den(b, t) < 0 THEN 0 - b.rank ELSE b.rank
  IN  IF Den(a, t) = 0 THEN TRUE
      ELSE IF Den(b, t) = 0 THEN FALSE
      ELSE WideLeq(Wide(sa, Abs(Den(b, t))), Wide(sb, Abs(Den(a, t))))

\* WHERE path LIKE ?
Matching(table, pat) == {e \in table : Like(pat, e.path)}

\* the ORDER BY written without DESC
FirstRowsAsc(rows, t) == {e \in rows : \A o \in rows : KeyLeq(e, o, t)}

\* the rows ORDER BY ... DESC LIMIT 1 may return: those no row sorts above
FirstRows(rows, t) == {e \in rows : \A o \in rows : KeyLeq(o, e, t)}

\* ------------------------------------------------------------------ inputs
Procs == {1, 2}

\* directories `add` is called with, already canonical: /, the home
\* directory /h, and /x, /X, /y
HomeDir == <<"/", "h">>

Dirs == {<<"/">>, HomeDir, <<"/", "x">>, <<"/", "X">>, <<"/", "y">>}

\* values of the system clock, in seconds
Nows == {150, 300}

\* `find` argument lists
Patterns ==
  { <<>>, << <<"x">> >>, << <<"X">> >>, << <<"z">> >>, << <<"_">> >>,
    << <<"%">>, <<"y">> >>, << <<"x">>, <<"y">> >>, << <<"y">>, <<"x">> >> }

\* contents of ~/.z the commands of Spec run against
ZTexts ==
  { << <<"/", "y", "|", "8", "9", "9", "9", "|", "1", "0", "0">> >>,
    << <<"/", "y", "|", "8", "9", "9", "8", ".", "9", "9", "9", "|", "1", "0", "0">> >>,
    << <<"/", "X", "|", "-", "1", "|", "1", "2", "6", "5", "0">>,
       <<"/", "x", "y", "|", "2", "|", "2", "0", "0", "0", "0">> >>,
    << <<"/", "x", "|", "5", "|", "2", "0", "0">>,
       <<"/", "y", "|", "5">> >>,
    << <<"/", "x", "y", "|", "9", "1", "0", "0", "|", "1", "0", "0">> >> }

\* lines the files of SpecImport are made of
LineSet ==
  { <<"/", "x", "|", "5", "|", "1", "0", "0">>,
    <<"/", "x", "|", "2", "|", "5", "0">>,
    <<"/", "X", "|", "2", "|", "2", "0", "0">>,
    <<"/", "x", "|", "3", "|", "1", "0", "0">>,
    <<"/", "y", "|", "3", "|", "5", "0">>,
    <<"/", "y">>,
    <<"/", "y", "|", "5">>,
    <<"/", "y", "|", "a", "|", "5", "0">>,
    <<"/", "y", "|", "5", "|", "1", ".", "5">> }

\* std::path::Path::components().count() of an absolute path
Components(dir) ==
  1 + Cardinality({i \in 1..Len(dir) : dir[i] # "/" /\ (i = 1 \/ dir[i - 1] = "/")})

\* "Ignore home and root directories"
Ignored(dir) == dir = HomeDir \/ Components(dir) = 1

\* what the last statement or command did
Ev(op, ok) ==
  [op |-> op, ok |-> ok, out |-> <<>>, n |-> 0, aged |-> FALSE, again |-> FALSE,
   dir |-> <<>>, path |-> <<>>, now |-> 0, pattern |-> <<>>]

Idle(p) ==
  /\ pc' = [pc EXCEPT ![p] = "idle"]
  /\ path' = [path EXCEPT ![p] = <<>>]
  /\ now' = [now EXCEPT ![p] = 0]
  /\ total' = [total EXCEPT ![p] = 0]

Start(p) == pc[p] = "idle" /\ nops < MaxOps /\ nops' = nops + 1

\* ----------------------------------------------------------------- history
\* hist records, for the claims, what the commands have done so far:
\*   clock, mono   the clock of the latest visit; no visit read an earlier
\*                 clock than the visit before it
\*   seen          for each path that a visit created and no import has
\*                 written since: c[k] is the number of its visits that
\*                 k - 1 aging passes have followed
\*   passes        the number of aging passes
\*   swapped, base, a   the file was replaced after an import of the file
\*                 a into the table base
NoHist ==
  [clock |-> 0, mono |-> TRUE, seen |-> {}, passes |-> 0,
   swapped |-> FALSE, base |-> {}, a |-> <<>>]

HistVisit(h, table, p, t) ==
  [h EXCEPT
     !.clock = t,
     !.mono = h.mono /\ t >= h.clock,
     !.seen = IF Find1(table, p).none
              THEN h.seen \cup {[path |-> p, c |-> <<1>>]}
              ELSE {IF s.path = p THEN [s EXCEPT !.c[1] = s.c[1] + 1] ELSE s : s \in h.seen}]

HistAge(h) ==
  [h EXCEPT !.passes = h.passes + 1,
            !.seen = {[s EXCEPT !.c = <<0>> \o s.c] : s \in h.seen}]

HistImport(h, old, new) ==
  [h EXCEPT !.seen = {s \in h.seen : Find1(old, s.path) = Find1(new, s.path)}]

Init ==
  /\ hist = NoHist
  /\ zipzap = {}
  /\ zfile \in ZTexts
  /\ pc = [p \in Procs |-> "idle"]
  /\ path = [p \in Procs |-> <<>>]
  /\ now = [p \in Procs |-> 0]
  /\ total = [p \in Procs |-> 0]
  /\ last = Ev("init", TRUE)
  /\ prev = {}
  /\ nops = 0

\* ------------------------------------------------------------- Command::Add
\* the home directory and the root are not recorded
AddIgnore(p, dir, t) ==
  /\ Start(p)
  /\ Ignored(dir)
  /\ last' = [Ev("add", TRUE) EXCEPT !.now = t]
  /\ prev' = zipzap
  /\ UNCHANGED <<zipzap, zfile, pc, path, now, total, hist>>

\* the first statement: the upsert, committed on its own
Upserting(p, dir, t) ==
  /\ ~Ignored(dir)
  /\ zipzap' = Upsert(zipzap, ToLower(dir), t)
  /\ pc' = [pc EXCEPT ![p] = "upserted"]
  /\ path' = [path EXCEPT ![p] = ToLower(dir)]
  /\ now' = [now EXCEPT ![p] = t]
  /\ last' = [Ev("upsert", TRUE) EXCEPT !.dir = dir, !.path = ToLower(dir), !.now = t]
  /\ prev' = zipzap
  /\ hist' = HistVisit(hist, zipzap, ToLower(dir), t)
  /\ UNCHANGED <<zfile, total>>

\* add, counted among the MaxOps commands
AddUpsert(p, dir, t) == Start(p) /\ Upserting(p, dir, t)

\* add, not counted among the MaxOps commands, up to MaxPasses aging passes
AddMore(p, dir, t) ==
  /\ pc[p] = "idle"
  /\ hist.passes < MaxPasses
  /\ nops' = nops
  /\ Upserting(p, dir, t)

\* the second statement: total = SELECT SUM(rank)
AddSum(p) ==
  /\ pc[p] = "upserted"
  /\ total' = [total EXCEPT ![p] = SumRank(zipzap)]
  /\ pc' = [pc EXCEPT ![p] = "summed"]
  /\ last' = [Ev("sum", TRUE) EXCEPT !.path = path[p], !.now = now[p]]
  /\ prev' = zipzap
  /\ UNCHANGED <<zipzap, zfile, path, now, nops, hist>>

\* the comparison written total > 9000.0
OverStrict(sum) == sum > Threshold * Scale

\* total >= 9000.0
Over(sum) == sum >= Threshold * Scale

\* the third statement, "If the total rank is above a threshold, perform aging"
AddAge(p) ==
  /\ pc[p] = "summed"
  /\ IF Over(total[p])
     THEN Decayable(zipzap) /\ zipzap' = Age(zipzap)
     ELSE zipzap' = zipzap
  /\ last' = [Ev("age", TRUE) EXCEPT !.aged = Over(total[p]), !.path = path[p],
                                     !.now = now[p]]
  /\ prev' = zipzap
  /\ hist' = IF Over(total[p]) THEN HistAge(hist) ELSE hist
  /\ Idle(p)
  /\ UNCHANGED <<zfile, nops>>

\* the process is killed between two statements of Command::Add
Interrupt(p) ==
  /\ pc[p] \in {"upserted", "summed"}
  /\ last' = [Ev("interrupt", FALSE) EXCEPT !.path = path[p], !.now = now[p]]
  /\ prev' = zipzap
  /\ Idle(p)
  /\ UNCHANGED <<zipzap, zfile, nops, hist>>

\* ------------------------------------------------------ DbCommand::Import
DbImport(p) ==
  /\ Start(p)
  /\ LET run == ImportLines(zipzap, zfile, 1)
     IN  /\ zipzap' = Committed(zipzap, run)
         /\ last' = [Ev("import", run.ok) EXCEPT
                       !.n = IF run.ok THEN run.n ELSE 0,
                       !.again = (last.op = "import" /\ last.ok)]
         /\ hist' = HistImport(hist, zipzap, Committed(zipzap, run))
  /\ prev' = zipzap
  /\ UNCHANGED <<zfile, pc, path, now, total>>

\* `db import` called with a request to clear the table first: DbCommand's
\* Import has no field, so Args::parse rejects the argument and exits
\* before inner runs
DbImportClear(p) ==
  /\ Start(p)
  /\ last' = Ev("import clear", FALSE)
  /\ prev' = zipzap
  /\ UNCHANGED <<zipzap, zfile, pc, path, now, total, hist>>

\* ------------------------------------------------------------ Command::Find
\* no argument: return Ok(()) and print nothing
FindEmpty(p, t) ==
  /\ Start(p)
  /\ last' = [Ev("find", TRUE) EXCEPT !.now = t]
  /\ prev' = zipzap
  /\ UNCHANGED <<zipzap, zfile, pc, path, now, total, hist>>

\* query_one: the first row is printed
FindRow(p, pattern, t) ==
  /\ Start(p)
  /\ pattern # <<>>
  /\ \E e \in FirstRows(Matching(zipzap, BuildPattern(pattern)), t) :
       last' = [Ev("find", TRUE) EXCEPT !.out = <<e.path>>, !.now = t,
                                        !.pattern = pattern]
  /\ prev' = zipzap
  /\ UNCHANGED <<zipzap, zfile, pc, path, now, total, hist>>

\* query_one: no row is the error QueryReturnedNoRows
FindNone(p, pattern, t) ==
  /\ Start(p)
  /\ pattern # <<>>
  /\ Matching(zipzap, BuildPattern(pattern)) = {}
  /\ last' = [Ev("find", FALSE) EXCEPT !.now = t, !.pattern = pattern]
  /\ prev' = zipzap
  /\ UNCHANGED <<zipzap, zfile, pc, path, now, total, hist>>

\* --------------------------------------------------------- the file ~/.z
Quiet == \A p \in Procs : pc[p] = "idle"

\* the user replaces the file
SetZ(text) ==
  /\ Quiet
  /\ text # zfile
  /\ zfile' = text
  /\ last' = Ev("write", TRUE)
  /\ prev' = zipzap
  /\ UNCHANGED <<zipzap, pc, path, now, total, nops, hist>>

\* the user appends a line to the file
AppendZ(line) ==
  /\ Quiet
  /\ Len(zfile) < MaxLines
  /\ zfile' = Append(zfile, line)
  /\ last' = Ev("write", TRUE)
  /\ prev' = zipzap
  /\ UNCHANGED <<zipzap, pc, path, now, total, nops, hist>>

\* the user replaces the file that was just imported, text in its place
SwapZ(text) ==
  /\ Quiet
  /\ last.op = "import" /\ last.ok
  /\ ~hist.swapped
  /\ zfile' = text
  /\ last' = Ev("write", TRUE)
  /\ prev' = zipzap
  /\ hist' = [hist EXCEPT !.swapped = TRUE, !.base = prev, !.a = zfile]
  /\ UNCHANGED <<zipzap, pc, path, now, total, nops>>

\* the user empties the file
TruncZ ==
  /\ Quiet
  /\ zfile # <<>>
  /\ zfile' = <<>>
  /\ last' = Ev("write", TRUE)
  /\ prev' = zipzap
  /\ UNCHANGED <<zipzap, pc, path, now, total, nops, hist>>

\* ---------------------------------------------------------- specifications
\* one process at a time: add, import and find against the files of ZTexts
Next ==
  \/ \E dir \in Dirs, t \in Nows : AddIgnore(1, dir, t)
  \/ \E dir \in Dirs, t \in Nows : AddUpsert(1, dir, t)
  \/ AddSum(1)
  \/ AddAge(1)
  \/ DbImport(1)
  \/ DbImportClear(1)
  \/ \E t \in Nows : FindEmpty(1, t)
  \/ \E pattern \in Patterns, t \in Nows : FindRow(1, pattern, t)
  \/ \E pattern \in Patterns, t \in Nows : FindNone(1, pattern, t)
  \/ \E text \in ZTexts : SetZ(text)

Spec == Init /\ [][Next]_vars

\* import against every file of at most MaxLines lines of LineSet, between
\* visits of one directory
ImportDirs == {<<"/", "X">>}

InitImport ==
  /\ hist = NoHist
  /\ zipzap = {}
  /\ zfile = <<>>
  /\ pc = [p \in Procs |-> "idle"]
  /\ path = [p \in Procs |-> <<>>]
  /\ now = [p \in Procs |-> 0]
  /\ total = [p \in Procs |-> 0]
  /\ last = Ev("init", TRUE)
  /\ prev = {}
  /\ nops = 0

NextImport ==
  \/ \E dir \in ImportDirs, t \in Nows : AddUpsert(1, dir, t)
  \/ AddSum(1)
  \/ AddAge(1)
  \/ DbImport(1)
  \/ \E line \in LineSet : AppendZ(line)
  \/ TruncZ

SpecImport == InitImport /\ [][NextImport]_vars

\* visits only, from the empty table: any number of /x, up to MaxOps of /y
VisitNows == {150}

NextVisits ==
  \/ \E t \in VisitNows : AddMore(1, <<"/", "x">>, t)
  \/ \E t \in VisitNows : AddUpsert(1, <<"/", "y">>, t)
  \/ AddSum(1)
  \/ AddAge(1)

SpecVisits == InitImport /\ [][NextVisits]_vars

\* imports of two files, one after the other, into a table that visits of
\* one directory have written: every file of at most MaxLines of these lines
OrderLines ==
  { <<"/", "x", "|", "5", "|", "1", "0", "0">>,
    <<"/", "x", "|", "3", "|", "1", "0", "0">>,
    <<"/", "X", "|", "2", "|", "2", "0", "0">> }

OrderFiles == UNION {[1..k -> OrderLines] : k \in 0..MaxLines}

InitOrder ==
  /\ hist = NoHist
  /\ zipzap = {}
  /\ zfile \in OrderFiles
  /\ pc = [p \in Procs |-> "idle"]
  /\ path = [p \in Procs |-> <<>>]
  /\ now = [p \in Procs |-> 0]
  /\ total = [p \in Procs |-> 0]
  /\ last = Ev("init", TRUE)
  /\ prev = {}
  /\ nops = 0

NextOrder ==
  \/ \E dir \in ImportDirs, t \in VisitNows : AddUpsert(1, dir, t)
  \/ AddSum(1)
  \/ AddAge(1)
  \/ DbImport(1)
  \/ \E text \in OrderFiles : SwapZ(text)

SpecOrder == InitOrder /\ [][NextOrder]_vars

\* two processes running add and import, statement by statement
NextConc ==
  \E p \in Procs :
    \/ \E dir \in Dirs, t \in Nows : AddUpsert(p, dir, t)
    \/ AddSum(p)
    \/ AddAge(p)
    \/ Interrupt(p)
    \/ DbImport(p)

SpecConc == Init /\ [][NextConc]_vars

\* ================================================================== claims
RowsAt(table, p) == {e \in table : e.path = p}

\* p is dir with every uppercase letter replaced by its lowercase letter
LowercaseOf(p, dir) ==
  /\ Len(p) = Len(dir)
  /\ \A i \in 1..Len(p) : p[i] \notin {"X", "Y"} /\ (p[i] = dir[i] \/ Lower(dir[i]) = p[i])

\* C1: the upsert of record_visit(path, now) creates the entry of the
\* lowercased path with rank 1 and last_access now when there is none, and
\* otherwise adds 1 to its rank and sets its last_access to now; before the
\* aging pass no other entry changes and none is removed.
C1_Upsert ==
  last.op = "upsert" =>
    /\ LowercaseOf(last.path, last.dir)
    /\ Cardinality(RowsAt(zipzap, last.path)) = 1
    /\ \A e \in RowsAt(zipzap, last.path) :
         /\ e.time = last.now
         /\ RowsAt(prev, last.path) = {} => e.rank = 1 * Scale
         /\ \A o \in RowsAt(prev, last.path) : e.rank = o.rank + 1 * Scale
    /\ \A o \in prev : o.path # last.path => o \in zipzap
    /\ \A e \in zipzap : e.path # last.path => e \in prev

\* a second visit of /x, as /X, gives rank 2 while the entry of /y stays as it was
C1_Witness ==
  /\ last.op = "upsert"
  /\ last.dir = <<"/", "X">>
  /\ \E e \in zipzap : e.path = <<"/", "x">> /\ e.rank = 2 * Scale /\ e.time = 300
  /\ \E o \in prev : o.path = <<"/", "x">> /\ o.time = 150
  /\ \E o \in prev : o.path = <<"/", "y">>

\* C2: the aging pass of a visit fires exactly when the sum of all ranks
\* right after the upsert is >= 9000; it then multiplies every rank by 0.99,
\* so the sum too, and changes no last_access; below 9000 nothing changes.
C2_Aging ==
  last.op = "age" =>
    /\ last.aged <=> SumRank(prev) >= 9000 * Scale
    /\ IF SumRank(prev) >= 9000 * Scale
       THEN /\ Cardinality(zipzap) = Cardinality(prev)
            /\ \A o \in prev : \E e \in zipzap :
                 /\ e.path = o.path
                 /\ e.time = o.time
                 /\ (o.rank - e.rank) * 100 = o.rank
            /\ (SumRank(prev) - SumRank(zipzap)) * 100 = SumRank(prev)
       ELSE zipzap = prev

\* the pass fires at a sum of exactly 9000 with two entries in the table
C2_Witness ==
  /\ last.op = "age"
  /\ last.aged
  /\ SumRank(prev) = 9000 * Scale
  /\ Cardinality(prev) = 2
  /\ SumRank(zipzap) = 8910 * Scale

\* C3: record_visit is one atomic transaction: no committed table shows
\* an upsert that brought the rank sum to >= 9000 without its decay.
C3_NoTornState ==
  ~(/\ last.op = "upsert"
    /\ SumRank(prev) < 9000 * Scale
    /\ SumRank(zipzap) >= 9000 * Scale)

\* rank * 3.75 / (0.0001 * (t - time) + 1.25) of a is >= that of b, for
\* divisors other than zero
ScoreGeq(a, b, t) ==
  LET da == (t - a.time) + 12500
      db == (t - b.time) + 12500
      ab == Wide(a.rank, db)
      ba == Wide(b.rank, da)
  IN  IF (da > 0) = (db > 0) THEN WideLeq(ba, ab) ELSE WideLeq(ab, ba)

Scored(e, t) == (t - e.time) + 12500 # 0

\* C4: for a non-empty token list with at least one matching entry, find
\* prints a matching entry whose score at now is >= the score of every
\* other matching entry, entries with a later last_access included (an
\* entry whose divisor is zero has no score: SQLite orders its NULL last).
C4_BestScore ==
  (last.op = "find" /\ last.pattern # <<>>) =>
    LET rows == {e \in zipzap : Like(BuildPattern(last.pattern), e.path)}
    IN  rows # {} =>
          /\ last.ok
          /\ Len(last.out) = 1
          /\ \E r \in rows :
               /\ r.path = last.out[1]
               /\ \A o \in rows :
                    Scored(o, last.now) =>
                      Scored(r, last.now) /\ ScoreGeq(r, o, last.now)

\* the printed entry was accessed after now and beats an older, matching
\* entry of the same rank
C4_Witness ==
  /\ last.op = "find"
  /\ Len(last.out) = 1
  /\ \E r \in zipzap, o \in zipzap :
       /\ r.path = last.out[1]
       /\ r.time > last.now
       /\ o.path # r.path
       /\ Like(BuildPattern(last.pattern), o.path)
       /\ o.rank = r.rank
       /\ ~ScoreGeq(o, r, last.now)

RECURSIVE InOrder(_, _, _)
\* s holds the tokens one after the other, without overlap, from index i on
InOrder(tokens, s, i) ==
  IF tokens = <<>> THEN TRUE
  ELSE LET tok == Head(tokens)
       IN  \E j \in i..(Len(s) - Len(tok) + 1) :
             /\ SubSeq(s, j, j + Len(tok) - 1) = tok
             /\ InOrder(Tail(tokens), s, j + Len(tok))

\* C5: a path find prints contains every lowercased token as a literal
\* substring, in the order of the token list and without overlap.
C5_Literal ==
  (last.op = "find" /\ Len(last.out) = 1) =>
    InOrder([i \in 1..Len(last.pattern) |-> ToLower(last.pattern[i])], last.out[1], 1)

Recs == [i \in DOMAIN zfile |-> ParseLine(zfile[i])]

\* C6: import applies the records in order as insert-or-update-if-newer: a
\* path without entry gets the record's rank and time, an entry is
\* overwritten by a record with a strictly greater time and is left alone
\* by one with an equal or older time.  So after the import each path
\* holds, of its old entry and its records, the earliest one with the
\* greatest time.
C6_Merge ==
  (last.op = "import" /\ last.ok) =>
    LET keys == {Recs[i].path : i \in DOMAIN zfile} \cup {e.path : e \in prev}
    IN  /\ {e.path : e \in zipzap} = keys
        /\ \A k \in keys :
             LET idx == {i \in DOMAIN zfile : Recs[i].path = k}
                 newest == {i \in idx : \A j \in idx : Recs[j].time <= Recs[i].time}
                 win == {i \in newest : \A j \in newest : i <= j}
                 kept == idx = {} \/ \E o \in RowsAt(prev, k) :
                                       \A i \in idx : Recs[i].time <= o.time
             IN  /\ Cardinality(RowsAt(zipzap, k)) = 1
                 /\ \A e \in RowsAt(zipzap, k) :
                      IF kept THEN e \in prev
                      ELSE \A i \in win : e.rank = Recs[i].rank /\ e.time = Recs[i].time

\* /x at (5, 100): the record /x|2|50 is ignored, /X|2|200 then gives (2, 200)
C6_Witness ==
  /\ last.op = "import"
  /\ last.ok
  /\ Len(zfile) = 2
  /\ Recs[1] = [ok |-> TRUE, path |-> <<"/", "x">>, rank |-> 2 * Scale, time |-> 50]
  /\ Recs[2] = [ok |-> TRUE, path |-> <<"/", "x">>, rank |-> 2 * Scale, time |-> 200]
  /\ \E o \in prev : o.path = <<"/", "x">> /\ o.rank = 5 * Scale /\ o.time = 100
  /\ \E e \in zipzap : e.path = <<"/", "x">> /\ e.rank = 2 * Scale /\ e.time = 200

\* a line with fewer than three fields, or whose rank or time is no number
Malformed(line) ==
  LET f == Split(line)
  IN  Len(f) < 3 \/ ~ParseF64(f[2]).ok \/ ~ParseI64(f[3]).ok

\* C7: an import whose file has a malformed line, at any position, returns
\* an error and leaves the table as it was before the import.
C7_AllOrNothing ==
  (last.op = "import" /\ \E i \in DOMAIN zfile : Malformed(zfile[i])) =>
    ~last.ok /\ zipzap = prev

\* the second line is malformed and the first, well-formed, would have
\* changed an entry
C7_Witness ==
  /\ last.op = "import"
  /\ ~last.ok
  /\ Len(zfile) = 2
  /\ ~Malformed(zfile[1])
  /\ Malformed(zfile[2])
  /\ \E o \in prev : o.path = Recs[1].path /\ o.time < Recs[1].time
  /\ zipzap = prev

\* C8: importing a file a second time, right after importing it, leaves
\* the table as the first import left it.
C8_Idempotent ==
  (last.op = "import" /\ last.again) => last.ok /\ zipzap = prev

\* the file imported twice holds two records of /x with different ranks
C8_Witness ==
  /\ last.op = "import"
  /\ last.again
  /\ Len(zfile) = 2
  /\ Recs[1].path = Recs[2].path
  /\ Recs[1].rank # Recs[2].rank
  /\ Recs[1].time < Recs[2].time
  /\ zipzap = prev
  /\ zipzap # {}

\* C9: find ends in the "not found" outcome, not in success, when the
\* token list is empty and when no entry matches; it prints no path and
\* leaves the table alone.
C9_NotFound ==
  (/\ last.op = "find"
   /\ \/ last.pattern = <<>>
      \/ \A e \in zipzap : ~Like(BuildPattern(last.pattern), e.path)) =>
    ~last.ok /\ last.out = <<>> /\ zipzap = prev

\* C10: every rank in the table is non-negative.
C10_NonNegative == \A e \in zipzap : e.rank >= 0

\* the entry o of prev is, in zipzap, one visit or one aging pass further
VisitedOrAged(o, e) ==
  \/ e.rank = o.rank
  \/ last.op = "upsert" /\ o.path = last.path /\ e.rank = o.rank + 1 * Scale
  \/ last.op = "age" /\ last.aged /\ (o.rank - e.rank) * 100 = o.rank

\* C11 as stated: the rank of an existing entry changes only by + 1 through
\* a visit of its path or by * 0.99 through the aging pass; every other
\* operation, import included, leaves it as it is.
C11_VisitOrAgeOnly ==
  \A o \in prev : \A e \in RowsAt(zipzap, o.path) : VisitedOrAged(o, e)

\* C11 as amended: the rank of an existing entry changes only by + 1
\* through a visit of its path, by * 0.99 through the aging pass, or to the
\* rank of an import record of its path whose time is later than the stored
\* last_access; find and every other operation leave it as it is.
C11_RankSteps ==
  \A o \in prev : \A e \in RowsAt(zipzap, o.path) :
    \/ VisitedOrAged(o, e)
    \/ /\ last.op = "import"
       /\ last.ok
       /\ \E i \in DOMAIN zfile :
            LET f == Split(zfile[i])
            IN  /\ ToLower(f[1]) = o.path
                /\ ParseI64(f[3]).val > o.time
                /\ e.rank = ParseF64(f[2]).val
                /\ e.time = ParseI64(f[3]).val

\* an import has replaced the rank 1 of the visited /x by the rank -1 of a
\* later record
C11_Witness ==
  /\ last.op = "import"
  /\ \E o \in prev : \E e \in RowsAt(zipzap, o.path) :
       o.rank = 1 * Scale /\ o.time = 150 /\ e.rank = 0 - 1 * Scale /\ e.time = 12650

\* C12: while no visit reads an earlier clock than the visit before it, no
\* visit and no import lowers the last_access of an existing path.
C12_LastAccessMonotone ==
  hist.mono => \A o \in prev : \A e \in RowsAt(zipzap, o.path) : e.time >= o.time

\* v * 0.99^d
RECURSIVE Times99(_, _)
Times99(v, d) == IF d = 0 THEN v ELSE Times99((v \div 100) * 99, d - 1)

\* the number of visits counted in c
RECURSIVE Visits(_)
Visits(c) == IF c = <<>> THEN 0 ELSE c[1] + Visits(Tail(c))

\* the sum, over the visits counted in c, of 0.99^(aging passes after the visit)
RECURSIVE Weighted(_)
Weighted(c) ==
  IF c = <<>> THEN 0 ELSE c[1] * Scale + Times99(Weighted(Tail(c)), 1)

\* C13 as stated: after each completed visit, a path that only visits have
\* written has rank (number of its visits) * 0.99^(aging passes since it
\* entered the table).
C13_VisitsTimesDecay ==
  last.op = "age" =>
    \A s \in hist.seen : \A e \in RowsAt(zipzap, s.path) :
      e.rank = Times99(Visits(s.c) * Scale, Len(s.c) - 1)

\* C13: after each completed visit, a path that only visits have written has
\* as rank the sum, over its visits, of 0.99^(aging passes after that visit).
C13_WeightedVisits ==
  last.op = "age" =>
    \A s \in hist.seen : \A e \in RowsAt(zipzap, s.path) : e.rank = Weighted(s.c)

\* /x was visited, aged, and visited again: 0.99 + 1
C13_Witness ==
  /\ last.op = "age"
  /\ \E s \in hist.seen : \E e \in RowsAt(zipzap, s.path) :
       s.c = <<1, 1>> /\ e.rank = 19900

\* the score of a at now t is strictly above that of b, as find orders them
ScoreAbove(a, b, t) == ~KeyLeq(a, b, t)

\* the score orders a and b by age for equal rank > 0, and by rank for
\* equal age
Monotone(a, b, t) ==
  /\ (a.rank = b.rank /\ a.rank > 0 /\ t - a.time < t - b.time) => ScoreAbove(a, b, t)
  /\ (a.time = b.time /\ a.rank > b.rank) => ScoreAbove(a, b, t)

\* C14 as stated: for any two entries the store holds and any now, negative
\* ages included, the score is strictly decreasing in the age for equal
\* rank > 0 and strictly increasing in the rank for equal age.
C14_MonotoneAnyAge ==
  \A t \in Nows : \A a \in zipzap : \A b \in zipzap : Monotone(a, b, t)

\* C14: the same, for entries whose age is above -12500 seconds, where the
\* divisor 0.0001 * age + 1.25 is positive.
C14_MonotoneScore ==
  \A t \in Nows : \A a \in zipzap : \A b \in zipzap :
    (t - a.time > 0 - AgeOffset /\ t - b.time > 0 - AgeOffset) => Monotone(a, b, t)

\* find printed the more recent of two entries of the same rank
C14_Witness ==
  /\ last.op = "find"
  /\ \E a \in zipzap : \E b \in zipzap :
       /\ a.rank = b.rank /\ a.rank > 0 /\ a.time > b.time
       /\ last.now - a.time > 0 - AgeOffset
       /\ last.out = <<a.path>>

\* C15 as stated: after every completed visit, whatever visits and imports
\* came before, the sum of the ranks is below 9000.
C15_SumBelowThreshold ==
  last.op = "age" => SumRank(zipzap) < Threshold * Scale

\* C15: after every completed visit that found a sum of ranks below 9000
\* (prev is the table after the upsert, one above the sum the visit found),
\* the sum of the ranks is below 9000.
C15_SumStaysBelow ==
  (last.op = "age" /\ SumRank(prev) - 1 * Scale < Threshold * Scale) =>
    SumRank(zipzap) < Threshold * Scale

\* a visit found 8999, made it 9000, and the aging pass brought it to 8910
C15_Witness ==
  /\ last.op = "age" /\ last.aged
  /\ SumRank(prev) = Threshold * Scale
  /\ SumRank(zipzap) = 8910 * Scale

\* C16: after an import that was asked to clear the table first, of a file
\* whose lines are all well-formed, the table holds an entry for the path of
\* every record of the file and no entry for any other path.
C16_ClearReplaces ==
  (last.op = "import clear" /\ \A i \in DOMAIN zfile : ~Malformed(zfile[i])) =>
    {e.path : e \in zipzap} = {Recs[i].path : i \in DOMAIN zfile}

\* p and q differ at most in letter case
SameFolded(p, q) ==
  Len(p) = Len(q) /\ \A i \in 1..Len(p) : Lower(p[i]) = Lower(q[i])

\* C17: the table never holds two entries whose paths differ at most in
\* letter case, and no stored path has an uppercase letter; a visit of a
\* directory, and a successful import of a record, whose path differs at
\* most in case from that of an existing entry adds no entry.
C17_OnePerFoldedPath ==
  /\ \A a \in zipzap : \A b \in zipzap : SameFolded(a.path, b.path) => a = b
  /\ \A e \in zipzap : \A i \in 1..Len(e.path) : e.path[i] \notin {"X", "Y"}
  /\ last.op = "upsert" =>
       /\ \E e \in zipzap : SameFolded(e.path, last.dir) /\ e.time = last.now
       /\ (\E o \in prev : SameFolded(o.path, last.dir)) =>
            Cardinality(zipzap) = Cardinality(prev)
  /\ (last.op = "import" /\ last.ok) =>
       \A i \in DOMAIN zfile :
         /\ \E e \in zipzap : SameFolded(e.path, Split(zfile[i])[1])
         /\ (\E o \in prev : SameFolded(o.path, Split(zfile[i])[1])) =>
              Cardinality({e \in zipzap : SameFolded(e.path, Split(zfile[i])[1])}) = 1

\* /x, created by a visit, was overwritten by the import of the record of /X
C17_Witness ==
  /\ last.op = "import" /\ last.ok
  /\ \E i \in DOMAIN zfile : Split(zfile[i])[1] = <<"/", "X">>
  /\ \E o \in prev : o.path = <<"/", "x">> /\ o.time = 150
  /\ \E e \in zipzap : e.path = <<"/", "x">> /\ e.time = 12650
  /\ Cardinality(zipzap) = Cardinality(prev) + 1

\* C18: from the empty table, with visits only, the sum of the ranks is
\* below 9000 after every completed visit: the visit found it below 9000,
\* and where the upsert raised it to 9000 or more the one aging pass of that
\* visit brought it below 9000 again.
C18_VisitsKeepBound ==
  last.op = "age" =>
    /\ SumRank(prev) - 1 * Scale < Threshold * Scale
    /\ SumRank(zipzap) < Threshold * Scale
    /\ last.aged <=> zipzap # prev

\* 8999 visits of /x and one of /y: the 9000th visit runs the aging pass
C18_Witness ==
  /\ last.op = "age" /\ last.aged
  /\ hist.seen = {[path |-> <<"/", "x">>, c |-> <<0, 8999>>],
                  [path |-> <<"/", "y">>, c |-> <<0, 1>>]}
  /\ SumRank(zipzap) = 8910 * Scale

\* the records of a file, and the entries of a table, as path, rank, time
Dataset(lines) ==
  {[src |-> lines, i |-> i, path |-> ParseLine(lines[i]).path,
    rank |-> ParseLine(lines[i]).rank, time |-> ParseLine(lines[i]).time] :
     i \in DOMAIN lines}

Stored(table) ==
  {[src |-> <<>>, i |-> 0, path |-> e.path, rank |-> e.rank, time |-> e.time] :
     e \in table}

\* the stored entry and the records of A and of B: for each path, their
\* times are pairwise different
DistinctTimes(table, A, B) ==
  /\ \A x \in Stored(table) \cup Dataset(A) : \A y \in Dataset(B) :
       x.path = y.path => x.time # y.time
  /\ \A x \in Stored(table) : \A y \in Dataset(A) :
       x.path = y.path => x.time # y.time
  /\ \A lines \in {A, B} : \A x \in Dataset(lines) : \A y \in Dataset(lines) :
       (x.path = y.path /\ x.i # y.i) => x.time # y.time

\* C19: when the file A was imported into the table base and then the file
\* B, both well-formed and with times that are pairwise different per path
\* (the stored one included), the table is the one that importing B and
\* then A into base gives, and each path holds the rank and time of the
\* record or stored entry with the greatest time.
C19_OrderIndependent ==
  (/\ last.op = "import" /\ last.ok
   /\ hist.swapped
   /\ prev = ImportLines(hist.base, hist.a, 1).table
   /\ DistinctTimes(hist.base, hist.a, zfile)) =>
    LET all == Stored(hist.base) \cup Dataset(hist.a) \cup Dataset(zfile)
    IN  /\ zipzap = ImportLines(ImportLines(hist.base, zfile, 1).table, hist.a, 1).table
        /\ {e.path : e \in zipzap} = {x.path : x \in all}
        /\ \A e \in zipzap : \E x \in all :
             /\ x.path = e.path /\ x.rank = e.rank /\ x.time = e.time
             /\ \A y \in all : y.path = e.path => y.time <= x.time

\* /x was visited at 150; A holds a newer record of /x, which replaces the
\* entry, B an older one, which is skipped
C19_Witness ==
  /\ last.op = "import" /\ last.ok
  /\ hist.swapped
  /\ prev = ImportLines(hist.base, hist.a, 1).table
  /\ DistinctTimes(hist.base, hist.a, zfile)
  /\ \E o \in hist.base : o.path = <<"/", "x">> /\ o.time = 150
  /\ hist.a = << <<"/", "X", "|", "2", "|", "2", "0", "0">> >>
  /\ zfile = << <<"/", "x", "|", "5", "|", "1", "0", "0">> >>
  /\ \E e \in zipzap : e.path = <<"/", "x">> /\ e.rank = 2 * Scale /\ e.time = 200

====
